---- MODULE Spec2Model ----
(***************************************************************************)
(* Model of the doorbell firmware (doorbell.cpp, main.cpp, fileutils.cpp): *)
(* the cooperative loop() that runs http_server_task(), mqtt_task() and    *)
(* doorbell_task() in turn, the playback scheduler, the switch debounce,   *)
(* the followed-topic registry and the history file.                       *)
(*                                                                         *)
(* uint32_t values (millis() and the timestamps derived from it) keep      *)
(* their width.  They are written as two 16-bit limbs <<hi, lo>>, the      *)
(* value being hi * 65536 + lo, because the model checker's integers are   *)
(* narrower than 2^32.                                                     *)
(***************************************************************************)
EXTENDS Integers, Sequences, FiniteSets, TLC

(***************************************************************************)
(* Program constants                                                       *)
(***************************************************************************)
EVENT_DOORBELL == 0
EVENT_COURTYARD_LAMP == 1
EVENT_DOORBELL_WEB == 2
EVENT_DOORBELL_MQTT == 3
DOORBELL_SOFTWARE_DEBOUNCE_TIME_MS == 100
DOORBELL_LONG_PRESS_TIME_MS == 5000
DOORBELL_MAX_MQTT_FOLLOW_TOPICS == 8
DOORBELL_HISTORY_LENGTH == 32
MQTT_CONNECT_RETRY_SEC == 5
MQTT_FLAG_DISCONNECTED == 1
MQTT_FLAG_CONNECTED == 2
LOW == 0
HIGH == 1
COMMENT_CHAR == ";"
DOORBELL_AUDIO_FILE_NAME ==
    <<"d", "o", "o", "r", "b", "e", "l", "l", ".", "w", "a", "v">>
DOORBELL_AUDIO_PLAY_COUNT == 1
DOORBELL_AUDIO_PLAY_DELAY_MS == 1000
\* 1.0f; gains are counted in hundredths
DOORBELL_AUDIO_GAIN == 100
Limb == 256 * 256

(***************************************************************************)
(* Bounds of the model                                                     *)
(***************************************************************************)
\* number of Elapse steps (clock advances) in one behaviour
MaxElapses == 2
\* number of trigger inputs (ring requests, bus messages, switch presses)
MaxTriggers == 3
\* number of records made in one behaviour of the history specification
MaxRecords == 2

(***************************************************************************)
(* uint32_t arithmetic                                                     *)
(***************************************************************************)
U32Zero == <<0, 0>>

\* a + d modulo 2^32, for a uint32_t a and a natural number d
U32Add(a, d) ==
    LET sum == a[2] + d
    IN  <<(a[1] + (sum \div Limb)) % Limb, sum % Limb>>

\* a < b on uint32_t
U32Less(a, b) == a[1] < b[1] \/ (a[1] = b[1] /\ a[2] < b[2])

\* a >= b on uint32_t
U32GreaterEq(a, b) == ~U32Less(a, b)

(***************************************************************************)
(* Arduino String operations.  A String is a sequence of characters; the   *)
(* lines of the history file are sequences of two tokens, the formatted    *)
(* timestamp and the event label, which the same operations treat as       *)
(* opaque characters.                                                      *)
(***************************************************************************)
Min2(a, b) == IF a < b THEN a ELSE b

Take(s, n) == SubSeq(s, 1, Min2(n, Len(s)))

\* String::indexOf(c): 0-based index of the first c, -1 when there is none
indexOf(s, c) ==
    IF \E i \in 1..Len(s) : s[i] = c
    THEN (CHOOSE i \in 1..Len(s) : s[i] = c /\ \A j \in 1..(i - 1) : s[j] # c) - 1
    ELSE -1

\* String::substring(from, to) with 0-based indices, to exclusive
substring(s, from, to) == SubSeq(s, from + 1, to)

\* the comment character and everything after it is removed
StripComment(s, commentChar) ==
    IF indexOf(s, commentChar) # -1 THEN Take(s, indexOf(s, commentChar)) ELSE s

\* trailing spaces and tabs are removed
RECURSIVE StripTrailingSpaces(_)
StripTrailingSpaces(s) ==
    IF Len(s) > 0 /\ s[Len(s)] \in {" ", "\t"}
    THEN StripTrailingSpaces(Take(s, Len(s) - 1))
    ELSE s

\* the treatment of one line by readStringFromFile / readStringsFromFile
ReadLine(line) == StripTrailingSpaces(StripComment(line, COMMENT_CHAR))

\* readStringsFromFile(filename, startLineIdx, a_lines, a_max_lines):
\* the lines stored into a_lines[0 .. count-1]; the return value is their number
readStringsFromFile(file, startLineIdx, a_max_lines) ==
    LET rest == SubSeq(file, startLineIdx + 1, Len(file))
        n == Min2(Len(rest), a_max_lines)
    IN  [i \in 1..n |-> ReadLine(rest[i])]

\* the array a_lines after readStringsFromFile stored `lines` into it
StoreLines(a_lines, lines) ==
    [i \in 1..Len(a_lines) |-> IF i <= Len(lines) THEN lines[i] ELSE a_lines[i]]

\* readStringFromFile(filename, lineIdx): the line, or the empty String when
\* the file has no such line or cannot be opened
readStringFromFile(file, lineIdx) ==
    IF lineIdx < Len(file) THEN ReadLine(file[lineIdx + 1]) ELSE <<>>

DigitChars == <<"0", "1", "2", "3", "4", "5", "6", "7", "8", "9">>

IsDigit(c) == \E d \in 1..10 : DigitChars[d] = c

DigitValue(c) == (CHOOSE d \in 1..10 : DigitChars[d] = c) - 1

\* the decimal digits of a natural number
RECURSIVE Digits(_)
Digits(n) ==
    IF n < 10 THEN <<DigitChars[n + 1]>>
    ELSE Append(Digits(n \div 10), DigitChars[(n % 10) + 1])

\* white space skipped by atol and atof
RECURSIVE SkipSpaces(_)
SkipSpaces(s) ==
    IF Len(s) > 0 /\ s[1] \in {" ", "\t"} THEN SkipSpaces(Tail(s)) ELSE s

\* the value of the digits that s starts with, continuing from acc
RECURSIVE LeadingDigits(_, _)
LeadingDigits(s, acc) ==
    IF Len(s) > 0 /\ IsDigit(s[1])
    THEN LeadingDigits(Tail(s), 10 * acc + DigitValue(s[1]))
    ELSE acc

\* s without the digits it starts with
RECURSIVE AfterDigits(_)
AfterDigits(s) ==
    IF Len(s) > 0 /\ IsDigit(s[1]) THEN AfterDigits(Tail(s)) ELSE s

\* s without a leading sign
Unsigned(s) == IF Len(s) > 0 /\ s[1] \in {"+", "-"} THEN Tail(s) ELSE s

\* String::toInt(): atol of the characters, which converts the digits the
\* text starts with and yields 0 when it starts with none
toInt(s) ==
    LET t == SkipSpaces(s)
        v == LeadingDigits(Unsigned(t), 0)
    IN  IF Len(t) > 0 /\ t[1] = "-" THEN 0 - v ELSE v

\* String::toFloat(): atof of the characters, in hundredths; digits after the
\* second decimal place are dropped
toFloat(s) ==
    LET t == SkipSpaces(s)
        u == Unsigned(t)
        whole == LeadingDigits(u, 0)
        rest == AfterDigits(u)
        frac == IF Len(rest) > 0 /\ rest[1] = "." THEN Tail(rest) ELSE <<>>
        d1 == IF Len(frac) > 0 /\ IsDigit(frac[1]) THEN DigitValue(frac[1]) ELSE 0
        d2 == IF Len(frac) > 1 /\ IsDigit(frac[1]) /\ IsDigit(frac[2])
              THEN DigitValue(frac[2]) ELSE 0
        v == 100 * whole + 10 * d1 + d2
    IN  IF Len(t) > 0 /\ t[1] = "-" THEN 0 - v ELSE v

(***************************************************************************)
(* State                                                                   *)
(***************************************************************************)
VARIABLES
    pc,                         \* "setup", then the position in loop():
                                \* "http", "mqtt", "task"
    millis,                     \* millis(), uint32_t
    uptime,                     \* milliseconds elapsed since Init, not wrapping
    running,                    \* audio_gen->isRunning()
    replay_cntr,                \* uint8_t
    replay_timestamp_ms,        \* uint32_t, 0 = no replay deadline
    switch_press_timestamp_ms,  \* uint32_t, 0 = no press open
    prevSwitchStatus,           \* static local of doorbell_task
    audioPlayCount,             \* uint8_t, set by doorbell_init
    audioPlayDelay_ms,          \* uint32_t, set by doorbell_init
    audioFileName,              \* String, set by doorbell_init
    audioGain,                  \* float, in hundredths, set by doorbell_init
    configFile,                 \* lines of doorbell.txt
    historyFile,                \* lines of doorbell_history.txt
    doorbell_history,           \* String doorbell_history[DOORBELL_HISTORY_LENGTH]
    mqttConnected,              \* mqttClient.connected()
    mqtt_connect_start_time,    \* uint32_t
    mqtt_flags,                 \* value returned by mqtt_task in this iteration
    subscribedToMqttTopics,
    followedMqttTopics,         \* followedMqttTopics_t [DOORBELL_MAX_MQTT_FOLLOW_TOPICS]
    followFile,                 \* lines of doorbell_mqtt_follow.txt
    log,                        \* what the handlers of this loop iteration did
    cyc,                        \* observation of the current playback cycle
    press,                      \* observation of the press being sampled
    lastPress,                  \* observation of the press released in this tick
    elapses,                    \* number of Elapse steps taken
    triggers,                   \* number of trigger inputs received
    connectFailedAt,            \* uptime of the last failed mqttClient.connect(),
                                \* -1 when none has failed
    records                     \* number of direct record() calls made

vars == <<pc, millis, uptime, running, replay_cntr, replay_timestamp_ms,
          switch_press_timestamp_ms, prevSwitchStatus, audioPlayCount,
          audioPlayDelay_ms, audioFileName, audioGain, configFile,
          historyFile, doorbell_history, mqttConnected,
          mqtt_connect_start_time, mqtt_flags, subscribedToMqttTopics,
          followedMqttTopics, followFile, log, cyc, press, lastPress,
          elapses, triggers, records, connectFailedAt>>

(***************************************************************************)
(* The log of one loop iteration.  pre and post are the scheduler state    *)
(* <<isRunning, replay_cntr, replay_timestamp_ms>> before and after.       *)
(***************************************************************************)
Sched(s) == <<s.running, s.replay_cntr, s.replay_timestamp_ms>>

Entry(op, arg, ok, pre, post) ==
    [op |-> op, arg |-> arg, ok |-> ok, pre |-> pre, post |-> post]

Logged(s, op, arg, ok) ==
    [s EXCEPT !.log = Append(s.log, Entry(op, arg, ok, Sched(s), Sched(s)))]

\* the part of the state that doorbell_play and doorbell_update_history work on
State ==
    [running |-> running, replay_cntr |-> replay_cntr,
     replay_timestamp_ms |-> replay_timestamp_ms,
     historyFile |-> historyFile, doorbell_history |-> doorbell_history,
     log |-> log, cyc |-> cyc]

\* what the environment answers during one handler
Env(beginOk, pubOk, openOk, wrLimit) ==
    [now |-> millis, connected |-> mqttConnected, beginOk |-> beginOk,
     pubOk |-> pubOk, openOk |-> openOk, wrLimit |-> wrLimit,
     stamp |-> ToString(uptime \div 1000), uptime |-> uptime,
     count |-> audioPlayCount, delay |-> audioPlayDelay_ms]

NoCycle == [active |-> FALSE, n |-> 0, starts |-> 0, finished |-> 0,
            failed |-> FALSE, schedAt |-> -1]

(***************************************************************************)
(* Playback scheduler                                                      *)
(***************************************************************************)
\* doorbell_is_playing that looks at the decoder only
doorbell_is_playing_running_only(s) == s.running

doorbell_is_playing(s) ==
    IF s.running THEN TRUE
    ELSE IF s.replay_timestamp_ms # U32Zero THEN TRUE
    ELSE IF s.replay_cntr # 0 THEN TRUE
    ELSE FALSE

\* a play count of 0 taken as one more session
ReplaysAfterBegin_at_least_one(count) == IF count = 0 THEN 1 ELSE count

\* "replay_cntr = audioPlayCount" after a successful audio_gen->begin()
ReplaysAfterBegin(count) == count

\* a publish whose failure ends the playback session
PublishAttempt_abort(s, e, topic) ==
    IF e.pubOk THEN Logged(s, "publish", topic, TRUE)
    ELSE Logged([s EXCEPT !.running = FALSE, !.replay_cntr = 0,
                          !.replay_timestamp_ms = U32Zero],
                "publish", topic, FALSE)

\* ok = mqttClient.publish(topic, mqttMsg), then TRACE or ERROR
PublishAttempt(s, e, topic) == Logged(s, "publish", topic, e.pubOk)

\* a publish that is attempted whether the client is connected or not
Publish_always(s, e, topic) == PublishAttempt(s, e, topic)

\* mqttClient.publish(topic, "1") when the client is connected
Publish(s, e, topic) ==
    IF e.connected THEN PublishAttempt(s, e, topic) ELSE s

\* doorbell_play without the doorbell_is_playing() guard
doorbell_play_unguarded(s, e) ==
    LET s1 == IF e.beginOk
              THEN [s EXCEPT !.running = TRUE,
                             !.replay_cntr = ReplaysAfterBegin(e.count),
                             !.cyc = [active |-> TRUE, n |-> e.count,
                                      starts |-> 1, finished |-> 0,
                                      failed |-> FALSE, schedAt |-> -1]]
              ELSE [s EXCEPT !.running = FALSE]
        s2 == [s1 EXCEPT !.log = Append(s.log,
                   Entry("play", "", e.beginOk, Sched(s), Sched(s1)))]
    IN  Publish(s2, e, "playAudio")

doorbell_play(s, e) ==
    LET began == ~doorbell_is_playing(s) /\ e.beginOk
        s1 == IF ~doorbell_is_playing(s)
              THEN IF e.beginOk
                   THEN [s EXCEPT !.running = TRUE,
                                  !.replay_cntr = ReplaysAfterBegin(e.count),
                                  !.cyc = [active |-> TRUE, n |-> e.count,
                                           starts |-> 1, finished |-> 0,
                                           failed |-> FALSE, schedAt |-> -1]]
                   ELSE [s EXCEPT !.running = FALSE]
              ELSE s
        s2 == [s1 EXCEPT !.log = Append(s.log,
                   Entry("play", "", began, Sched(s), Sched(s1)))]
    IN  Publish(s2, e, "playAudio")

\* a deadline that is set also when no replay remains
NextDeadline_always(c, now, delay) == U32Add(now, delay)

\* replay_timestamp_ms after the decrement left c replays
NextDeadline(c, now, delay) == IF c # 0 THEN U32Add(now, delay) ELSE U32Zero

\* the scheduler part of doorbell_task; finish: the decoder reaches the end
\* of the file in this audio_gen->loop()
doorbell_replay(s, e, finish) ==
    IF s.running
    THEN IF finish
         THEN [s EXCEPT !.running = FALSE,
                        !.cyc.finished = s.cyc.finished + 1]
         ELSE s
    ELSE IF s.replay_timestamp_ms # U32Zero
    THEN IF U32Less(s.replay_timestamp_ms, e.now)
         THEN LET s1 == [s EXCEPT !.running = e.beginOk,
                                  !.replay_timestamp_ms = U32Zero,
                                  !.cyc.starts = IF e.beginOk THEN @ + 1 ELSE @,
                                  !.cyc.failed = @ \/ ~e.beginOk,
                                  !.cyc.schedAt = -1]
              IN  [s1 EXCEPT !.log = Append(s.log,
                      Entry("replay", e.uptime - s.cyc.schedAt, e.beginOk,
                            Sched(s), Sched(s1)))]
         ELSE s
    ELSE IF s.replay_cntr # 0
    THEN LET c == s.replay_cntr - 1
             s1 == [s EXCEPT !.replay_cntr = c,
                             !.replay_timestamp_ms =
                                 NextDeadline(c, e.now, e.delay),
                             !.cyc.schedAt = IF c # 0 THEN e.uptime ELSE -1]
         IN  [s1 EXCEPT !.log = Append(s.log,
                 Entry("done", "", TRUE, Sched(s), Sched(s1)))]
    ELSE s

(***************************************************************************)
(* History log                                                             *)
(***************************************************************************)
EventLabel(eventType) ==
    IF eventType = EVENT_COURTYARD_LAMP THEN " courtyard lamp"
    ELSE IF eventType = EVENT_DOORBELL THEN " doorbell switch"
    ELSE IF eventType = EVENT_DOORBELL_WEB THEN " doorbell through web"
    ELSE IF eventType = EVENT_DOORBELL_MQTT THEN " doorbell through MQTT"
    ELSE " unknown event!"

\* e.openOk: LittleFS.open(.., "w") succeeds; e.wrLimit: number of old lines
\* the file system accepts before a write comes back short
doorbell_update_history(s, e, eventType) ==
    LET lines == readStringsFromFile(s.historyFile, 0, DOORBELL_HISTORY_LENGTH)
        lineNum == Len(lines)
        s1 == [s EXCEPT !.doorbell_history = StoreLines(s.doorbell_history, lines)]
        s2 == IF e.openOk
              THEN [s1 EXCEPT !.historyFile =
                       <<  <<e.stamp, EventLabel(eventType)>>  >>
                       \o Take(lines, Min2(lineNum, e.wrLimit))]
              ELSE s1
    IN  Logged(s2, "record",
               [type |-> eventType, before |-> s.historyFile,
                after |-> s2.historyFile,
                entry |-> <<e.stamp, EventLabel(eventType)>>],
               e.openOk /\ e.wrLimit >= lineNum)

\* the history part of doorbell_generate_index_htm
doorbell_generate_index_htm(s) ==
    LET lines == readStringsFromFile(s.historyFile, 0, DOORBELL_HISTORY_LENGTH)
        s1 == [s EXCEPT !.doorbell_history = StoreLines(s.doorbell_history, lines)]
    IN  Logged(s1, "render", lines, TRUE)

(***************************************************************************)
(* Followed-topic registry                                                 *)
(***************************************************************************)
NoTopic == [topic |-> <<>>, value |-> <<>>]

\* one line of the followed-topics file: "topic,value" or "topic"
ParseFollowLine(line) ==
    LET commaIdx == indexOf(line, ",")
    IN  IF commaIdx # -1
        THEN [topic |-> substring(line, 0, commaIdx),
              value |-> substring(line, commaIdx + 1, Len(line))]
        ELSE [topic |-> line, value |-> <<>>]

\* a store that puts the entry into the first slot without topic
SetFollowed_append(followed, i, line) ==
    LET free == { j \in DOMAIN followed : followed[j].topic = <<>> }
        slot == IF free = {} THEN i
                ELSE CHOOSE j \in free : \A k \in free : j <= k
    IN  [followed EXCEPT ![i] = IF slot = i THEN ParseFollowLine(line) ELSE @,
                         ![slot] = ParseFollowLine(line)]

\* followedMqttTopics[i].topic and .value are assigned from line i
SetFollowed(followed, i, line) == [followed EXCEPT ![i] = ParseFollowLine(line)]

\* the for loop of doorbell_mqtt_init from index i (1-based) on; subFails: the
\* line numbers whose mqttClient.subscribe() returns false
RECURSIVE MqttInitLoop(_, _, _, _, _, _)
MqttInitLoop(followed, lines, i, ret, subs, subFails) ==
    IF i > Len(lines) \/ i > DOORBELL_MAX_MQTT_FOLLOW_TOPICS
    THEN [followed |-> followed, ret |-> ret, subs |-> subs]
    ELSE LET f1 == SetFollowed(followed, i, lines[i])
         IN  IF Len(f1[i].topic) # 0
             THEN MqttInitLoop(f1, lines, i + 1, ret /\ (i \notin subFails),
                               Append(subs, f1[i].topic), subFails)
             ELSE [followed |-> f1, ret |-> ret, subs |-> subs]

\* a load that reports success whatever mqttClient.subscribe() returns
doorbell_mqtt_init_always_ok(followed, file, subFails) ==
    [MqttInitLoop(followed,
                  readStringsFromFile(file, 0, DOORBELL_MAX_MQTT_FOLLOW_TOPICS),
                  1, TRUE, <<>>, subFails) EXCEPT !.ret = TRUE]

doorbell_mqtt_init(followed, file, subFails) ==
    MqttInitLoop(followed,
                 readStringsFromFile(file, 0, DOORBELL_MAX_MQTT_FOLLOW_TOPICS),
                 1, TRUE, <<>>, subFails)

\* an entry that follows its topic whatever the payload is
FollowedMatch_topic_only(followed, i, topicStr, payloadStr) ==
    topicStr = followed[i].topic

\* the condition of doorbell_mqtt_callback for entry i
FollowedMatch(followed, i, topicStr, payloadStr) ==
    /\ topicStr = followed[i].topic
    /\ (followed[i].value = <<>> \/ payloadStr = followed[i].value)

\* the for loop of doorbell_mqtt_callback from index i (1-based) on
RECURSIVE MqttCallbackLoop(_, _, _, _, _, _)
MqttCallbackLoop(s, e, followed, i, topicStr, payloadStr) ==
    IF i > DOORBELL_MAX_MQTT_FOLLOW_TOPICS THEN s
    ELSE IF FollowedMatch(followed, i, topicStr, payloadStr)
         THEN MqttCallbackLoop(
                  doorbell_update_history(doorbell_play(s, e), e, EVENT_DOORBELL_MQTT),
                  e, followed, i + 1, topicStr, payloadStr)
         ELSE MqttCallbackLoop(s, e, followed, i + 1, topicStr, payloadStr)

\* matches(topic, payload): some entry of the registry follows the message
matches(followed, topicStr, payloadStr) ==
    \E i \in 1..DOORBELL_MAX_MQTT_FOLLOW_TOPICS :
        FollowedMatch(followed, i, topicStr, payloadStr)

doorbell_mqtt_callback(s, e, followed, topicStr, payloadStr) ==
    MqttCallbackLoop(
        Logged(s, "message", [topic |-> topicStr, payload |-> payloadStr],
               matches(followed, topicStr, payloadStr)),
        e, followed, 1, topicStr, payloadStr)

(***************************************************************************)
(* Inputs of the environment                                               *)
(***************************************************************************)
\* values of millis() at which an idle device is observed: shortly after
\* setup(), and 1000 ms and 100 ms before millis() wraps
StartMillis == { <<0, 1000>>, <<65535, 64536>>, <<65535, 65436>> }
PlayCounts == {1, 2}
PlayDelays == {1000}
NoMessage == <<>>
FollowFiles == { << <<"a", ",", "1">>, <<"b">>, <<"a">> >> }
\* "no short write": more lines than the history file can hold
NoLimit == DOORBELL_HISTORY_LENGTH + 1

(***************************************************************************)
(* Initial state: after setup()                                            *)
(***************************************************************************)
\* what setup() leaves outside the configuration of the doorbell
Boot(startMillis, history, follows) ==
    /\ millis \in startMillis
    /\ uptime = 0
    /\ running = FALSE
    /\ replay_cntr = 0
    /\ replay_timestamp_ms = U32Zero
    /\ switch_press_timestamp_ms = U32Zero
    /\ prevSwitchStatus = HIGH
    /\ historyFile \in history
    /\ doorbell_history = [i \in 1..DOORBELL_HISTORY_LENGTH |-> <<>>]
    /\ mqttConnected = FALSE
    /\ mqtt_connect_start_time = U32Zero
    /\ mqtt_flags = 0
    /\ subscribedToMqttTopics = FALSE
    /\ followedMqttTopics = [i \in 1..DOORBELL_MAX_MQTT_FOLLOW_TOPICS |-> NoTopic]
    /\ followFile \in follows
    /\ log = <<>>
    /\ cyc = NoCycle
    /\ press = [open |-> FALSE, at |-> 0, confirmed |-> 0, long |-> 0,
                 set |-> FALSE, clears |-> 0]
    /\ lastPress = [released |-> FALSE, d |-> 0, confirmed |-> 0, long |-> 0,
                    now |-> FALSE, set |-> FALSE, clears |-> 0,
                    busy |-> FALSE, connected |-> FALSE]
    /\ elapses = 0
    /\ triggers = 0
    /\ records = 0
    /\ connectFailedAt = -1

\* after setup() with a doorbell.txt that names the default audio file, a
\* play count of counts and a delay of delays
InitWith(startMillis, counts, delays, history, follows) ==
    /\ pc = "http"
    /\ audioPlayCount \in counts
    /\ audioPlayDelay_ms \in delays
    /\ audioFileName = DOORBELL_AUDIO_FILE_NAME
    /\ audioGain = DOORBELL_AUDIO_GAIN
    /\ configFile = <<DOORBELL_AUDIO_FILE_NAME, Digits(audioPlayCount),
                      Digits(audioPlayDelay_ms)>>
    /\ Boot(startMillis, history, follows)

InitFrom(startMillis, counts, delays, history) ==
    InitWith(startMillis, counts, delays, history, FollowFiles)

Init == InitFrom(StartMillis, PlayCounts, PlayDelays, { <<>> })

\* the variables that doorbell_play and doorbell_update_history work on
Commit(s) ==
    /\ running' = s.running
    /\ replay_cntr' = s.replay_cntr
    /\ replay_timestamp_ms' = s.replay_timestamp_ms
    /\ historyFile' = s.historyFile
    /\ doorbell_history' = s.doorbell_history
    /\ log' = s.log
    /\ cyc' = s.cyc

\* answers of the file system: open succeeds and every write is complete,
\* open fails, open succeeds and the first write of an old line comes back short
FsAnswers == { [openOk |-> TRUE, wrLimit |-> NoLimit],
               [openOk |-> FALSE, wrLimit |-> NoLimit],
               [openOk |-> TRUE, wrLimit |-> 0] }

FsAnswers_ok == [openOk |-> TRUE, wrLimit |-> NoLimit]

HasFlag(flags, flag) == (flags \div flag) % 2 = 1

(***************************************************************************)
(* Time passes between two iterations of loop()                            *)
(***************************************************************************)
Elapse(dt) ==
    /\ pc = "http"
    /\ elapses < MaxElapses
    /\ millis' = U32Add(millis, dt)
    /\ uptime' = uptime + dt
    /\ elapses' = elapses + 1
    /\ UNCHANGED <<pc, running, replay_cntr, replay_timestamp_ms,
                   switch_press_timestamp_ms, prevSwitchStatus, audioPlayCount,
                   audioPlayDelay_ms, historyFile, doorbell_history,
                   mqttConnected, mqtt_connect_start_time, mqtt_flags,
                   subscribedToMqttTopics, followedMqttTopics, followFile,
                   log, cyc, press, lastPress, triggers, records,
                   audioFileName, audioGain, configFile,
                   connectFailedAt>>

(***************************************************************************)
(* http_server_task(): at most one request is handled per iteration        *)
(***************************************************************************)
\* the handler without the http_is_authenticated() test
doorbell_handle_doorbell_htm_open(s, e, authed, bell) ==
    LET s1 == Logged(s, "request", [bell |-> bell, authed |-> authed], authed)
    IN  IF bell = "RING"
        THEN doorbell_update_history(doorbell_play(s1, e), e, EVENT_DOORBELL_WEB)
        ELSE s1

\* authed: http_is_authenticated(DOORBELL_HTM); bell: the argument "bell" of
\* the request, empty when the request has none
doorbell_handle_doorbell_htm(s, e, authed, bell) ==
    LET s1 == Logged(s, "request", [bell |-> bell, authed |-> authed], authed)
    IN  IF ~authed THEN s1
        ELSE IF bell = "RING"
        THEN doorbell_update_history(doorbell_play(s1, e), e, EVENT_DOORBELL_WEB)
        ELSE s1

http_server_handle_index_htm(s, authed) ==
    IF ~authed THEN s ELSE doorbell_generate_index_htm(s)

HttpServerTask(req, authed, beginOk, pubOk, fs) ==
    /\ pc = "http"
    /\ req = "ring" => triggers < MaxTriggers
    /\ LET s == [State EXCEPT !.log = <<>>,
                              !.cyc = IF doorbell_is_playing(State)
                                      THEN @ ELSE NoCycle]
           e == Env(beginOk, pubOk, fs.openOk, fs.wrLimit)
       IN  Commit(CASE req = "ring" -> doorbell_handle_doorbell_htm(s, e, authed, "RING")
                    [] req = "doorbell" -> doorbell_handle_doorbell_htm(s, e, authed, "")
                    [] req = "index" -> http_server_handle_index_htm(s, authed)
                    [] OTHER -> s)
    /\ triggers' = IF req = "ring" THEN triggers + 1 ELSE triggers
    /\ pc' = "mqtt"
    /\ UNCHANGED <<millis, uptime, switch_press_timestamp_ms, prevSwitchStatus,
                   audioPlayCount, audioPlayDelay_ms, mqttConnected,
                   mqtt_connect_start_time, mqtt_flags, subscribedToMqttTopics,
                   followedMqttTopics, followFile, press, lastPress, elapses,
                   records,
                   audioFileName, audioGain, configFile,
                   connectFailedAt>>

\* a bus message that some entry of the registry matches
IsTrigger(msg) ==
    /\ msg # NoMessage
    /\ \E i \in 1..DOORBELL_MAX_MQTT_FOLLOW_TOPICS :
           FollowedMatch(followedMqttTopics, i, msg[1], msg[2])

(***************************************************************************)
(* mqtt_task(): wifi = (WiFi.status() == WL_CONNECTED), connectOk = result *)
(* of mqttClient.connect(), msg = the message mqttClient.loop() delivers   *)
(* to mqtt_callback, drop = the connection is lost during this iteration   *)
(***************************************************************************)
MqttTask(wifi, connectOk, drop, msg, beginOk, pubOk, fs) ==
    /\ pc = "mqtt"
    /\ IsTrigger(msg) => triggers < MaxTriggers
    /\ LET attempt == /\ wifi
                      /\ ~mqttConnected
                      /\ \/ mqtt_connect_start_time = U32Zero
                         \/ U32GreaterEq(millis, mqtt_connect_start_time)
           connected1 == IF wifi
                         THEN IF attempt THEN connectOk ELSE mqttConnected
                         ELSE FALSE
           flags == IF attempt
                    THEN IF connectOk THEN MQTT_FLAG_CONNECTED
                                      ELSE MQTT_FLAG_DISCONNECTED
                    ELSE IF ~wifi /\ mqttConnected THEN MQTT_FLAG_DISCONNECTED
                    ELSE 0
           delivered == connected1 /\ msg # NoMessage
           e == [Env(beginOk, pubOk, fs.openOk, fs.wrLimit)
                    EXCEPT !.connected = connected1]
           s0 == IF attempt
                 THEN Logged(State, "connect",
                             [wifi |-> wifi, connected |-> mqttConnected,
                              since |-> IF connectFailedAt < 0 THEN -1
                                        ELSE uptime - connectFailedAt],
                             connectOk)
                 ELSE State
       IN  /\ mqtt_flags' = flags
           /\ mqtt_connect_start_time' =
                  IF attempt /\ ~connectOk
                  THEN U32Add(millis, MQTT_CONNECT_RETRY_SEC * 1000)
                  ELSE mqtt_connect_start_time
           /\ mqttConnected' = (connected1 /\ ~drop)
           /\ connectFailedAt' = IF attempt /\ ~connectOk THEN uptime
                                 ELSE connectFailedAt
           /\ Commit(IF delivered
                     THEN doorbell_mqtt_callback(s0, e, followedMqttTopics,
                                                 msg[1], msg[2])
                     ELSE s0)
           /\ triggers' = IF IsTrigger(msg) THEN triggers + 1 ELSE triggers
    /\ pc' = "task"
    /\ UNCHANGED <<millis, uptime, switch_press_timestamp_ms, prevSwitchStatus,
                   audioPlayCount, audioPlayDelay_ms, subscribedToMqttTopics,
                   followedMqttTopics, followFile, press, lastPress, elapses,
                   records, audioFileName, audioGain, configFile>>

(***************************************************************************)
(* doorbell_task(mqtt_flags)                                               *)
(***************************************************************************)
\* rising edge with a press open for longer than the debounce time
PressConfirmed(ts, now) ==
    /\ ts # U32Zero
    /\ U32Less(U32Add(ts, DOORBELL_SOFTWARE_DEBOUNCE_TIME_MS), now)

\* a press open for longer than the long press time
LongPress(ts, now) ==
    /\ ts # U32Zero
    /\ U32Less(U32Add(ts, DOORBELL_LONG_PRESS_TIME_MS), now)

\* a release that leaves the press timestamp as it is
ClearOnRelease_never(risingEdge, ts) == ts

\* "switch_press_timestamp_ms = 0" at the end of the rising edge branch
ClearOnRelease(risingEdge, ts) == IF risingEdge THEN U32Zero ELSE ts

\* a confirmed press that rings and records whatever the scheduler is doing
doorbell_on_press_ungated(s, e) ==
    doorbell_update_history(
        doorbell_play(Publish(Logged(s, "PressConfirmed", "", TRUE), e, "press"),
                      e),
        e, EVENT_DOORBELL)

\* the body of "Someone pressed the button, ring the bell!"
doorbell_on_press(s, e) ==
    LET s1 == Publish(Logged(s, "PressConfirmed", "", TRUE), e, "press")
    IN  IF ~doorbell_is_playing(s1)
        THEN doorbell_update_history(doorbell_play(s1, e), e, EVENT_DOORBELL)
        ELSE s1

\* a long press that also rings the bell
doorbell_on_long_press_rings(s, e) ==
    doorbell_update_history(
        doorbell_play(Publish(Logged(s, "LongPress", "", TRUE), e, "longPress"),
                      e),
        e, EVENT_COURTYARD_LAMP)

\* the body of "The button was pressed for long time"
doorbell_on_long_press(s, e) ==
    doorbell_update_history(
        Publish(Logged(s, "LongPress", "", TRUE), e, "longPress"),
        e, EVENT_COURTYARD_LAMP)

\* a reload on the connect flag only
MqttInitNeeded_flag_only(connected, subscribed, flags) ==
    HasFlag(flags, MQTT_FLAG_CONNECTED)

\* the condition under which doorbell_task calls doorbell_mqtt_init()
MqttInitNeeded(connected, subscribed, flags) ==
    \/ connected /\ ~subscribed
    \/ HasFlag(flags, MQTT_FLAG_CONNECTED)

\* a flag that is cleared on the disconnect flag only
ClearSubscribed_flag_only(connected, subscribed, flags) ==
    IF HasFlag(flags, MQTT_FLAG_DISCONNECTED) THEN FALSE ELSE subscribed

\* subscribedToMqttTopics after the second test of the bus bookkeeping
ClearSubscribed(connected, subscribed, flags) ==
    IF \/ ~connected /\ subscribed
       \/ HasFlag(flags, MQTT_FLAG_DISCONNECTED)
    THEN FALSE ELSE subscribed

DoorbellTask(switchStatus, finish, beginOk, pubOk, fs, subFails) ==
    /\ pc = "task"
    /\ (prevSwitchStatus = HIGH /\ switchStatus = LOW) => triggers < MaxTriggers
    /\ LET e == Env(beginOk, pubOk, fs.openOk, fs.wrLimit)
           \* bus bookkeeping
           doInit == MqttInitNeeded(mqttConnected, subscribedToMqttTopics,
                                    mqtt_flags)
           loaded == doorbell_mqtt_init(followedMqttTopics, followFile, subFails)
           sub1 == IF doInit THEN loaded.ret ELSE subscribedToMqttTopics
           sub2 == ClearSubscribed(mqttConnected, sub1, mqtt_flags)
           s0 == IF doInit
                 THEN Logged(State, "mqtt_init",
                             [subs |-> loaded.subs,
                              fails |-> subFails \cap (1..Len(loaded.subs)),
                              before |-> followedMqttTopics],
                             loaded.ret)
                 ELSE State
           \* switch
           risingEdge == prevSwitchStatus = LOW /\ switchStatus = HIGH
           fallingEdge == prevSwitchStatus = HIGH /\ switchStatus = LOW
           ts1 == IF fallingEdge /\ switch_press_timestamp_ms = U32Zero
                  THEN millis ELSE switch_press_timestamp_ms
           confirmed == risingEdge /\ PressConfirmed(ts1, millis)
           s1 == IF confirmed THEN doorbell_on_press(s0, e) ELSE s0
           ts2 == ClearOnRelease(risingEdge, ts1)
           long == LongPress(ts2, millis)
           s2 == IF long THEN doorbell_on_long_press(s1, e) ELSE s1
           ts3 == IF long THEN U32Zero ELSE ts2
           \* what this press has produced so far
           p1 == IF fallingEdge
                 THEN [open |-> TRUE, at |-> uptime, confirmed |-> 0, long |-> 0,
                       set |-> ts1 # U32Zero, clears |-> 0]
                 ELSE press
           p2 == [p1 EXCEPT !.confirmed = IF confirmed THEN @ + 1 ELSE @,
                            !.long = IF long THEN @ + 1 ELSE @,
                            !.clears = IF ts1 # U32Zero /\ ts3 = U32Zero
                                       THEN @ + 1 ELSE @]
       IN  /\ subscribedToMqttTopics' = sub2
           /\ followedMqttTopics' = IF doInit THEN loaded.followed
                                              ELSE followedMqttTopics
           /\ switch_press_timestamp_ms' = ts3
           /\ prevSwitchStatus' = switchStatus
           /\ Commit(doorbell_replay(s2, e, finish))
           /\ press' = IF risingEdge
                       THEN [open |-> FALSE, at |-> 0, confirmed |-> 0, long |-> 0,
                             set |-> FALSE, clears |-> 0]
                       ELSE p2
           /\ lastPress' = IF risingEdge /\ press.open
                           THEN [released |-> TRUE, d |-> uptime - press.at,
                                 confirmed |-> p2.confirmed, long |-> p2.long,
                                 now |-> confirmed, set |-> p2.set,
                                 clears |-> p2.clears,
                                 busy |-> doorbell_is_playing(State),
                                 connected |-> mqttConnected]
                           ELSE [released |-> FALSE, d |-> 0, confirmed |-> 0,
                                 long |-> 0, now |-> FALSE, set |-> FALSE,
                                 clears |-> 0, busy |-> FALSE,
                                 connected |-> FALSE]
           /\ triggers' = IF fallingEdge THEN triggers + 1 ELSE triggers
    /\ pc' = "http"
    /\ UNCHANGED <<millis, uptime, audioPlayCount, audioPlayDelay_ms,
                   mqttConnected, mqtt_connect_start_time, mqtt_flags,
                   followFile, elapses, records,
                   audioFileName, audioGain, configFile,
                   connectFailedAt>>

(***************************************************************************)
(* One step of loop() with the inputs of the environment drawn from the    *)
(* sets of the record I                                                    *)
(***************************************************************************)
Step(I) ==
    \/ \E dt \in I.steps : Elapse(dt)
    \/ \E req \in I.reqs, authed \in I.auths, beginOk \in I.begins,
          pubOk \in I.pubs, fs \in I.fss :
          HttpServerTask(req, authed, beginOk, pubOk, fs)
    \/ \E wifi \in I.wifis, connectOk \in I.connects, drop \in I.drops,
          msg \in I.msgs, beginOk \in I.begins, pubOk \in I.pubs, fs \in I.fss :
          MqttTask(wifi, connectOk, drop, msg, beginOk, pubOk, fs)
    \/ \E switchStatus \in I.levels, finish \in I.finishes, beginOk \in I.begins,
          pubOk \in I.pubs, fs \in I.fss, subFails \in I.subs :
          DoorbellTask(switchStatus, finish, beginOk, pubOk, fs, subFails)

(***************************************************************************)
(* Specification of the whole loop: the three trigger sources, starts that *)
(* succeed or fail, sessions that finish, a bus that connects              *)
(***************************************************************************)
LoopInputs ==
    [steps |-> {1001}, reqs |-> {"none", "ring"}, auths |-> {TRUE},
     begins |-> BOOLEAN, pubs |-> {TRUE}, fss |-> {FsAnswers_ok},
     wifis |-> {TRUE}, connects |-> {TRUE}, drops |-> {FALSE},
     msgs |-> {NoMessage, << <<"a">>, <<"1">> >>},
     levels |-> {LOW, HIGH}, finishes |-> BOOLEAN, subs |-> { {} }]

Next == Step(LoopInputs)

Spec == Init /\ [][Next]_vars

(***************************************************************************)
(* Specification of the switch: presses of every length sampled by ticks   *)
(* of every spacing, no other trigger                                      *)
(***************************************************************************)
SwitchInputs ==
    [steps |-> {1, 100, 5000}, reqs |-> {"none"}, auths |-> {TRUE},
     begins |-> {TRUE}, pubs |-> {TRUE}, fss |-> {FsAnswers_ok},
     wifis |-> {TRUE}, connects |-> {TRUE}, drops |-> {FALSE},
     msgs |-> {NoMessage}, levels |-> {LOW, HIGH}, finishes |-> BOOLEAN,
     subs |-> { {} }]

SwitchNext == Step(SwitchInputs)

SwitchSpec == Init /\ [][SwitchNext]_vars

(***************************************************************************)
(* Specification of the web trigger: requests to the doorbell page with    *)
(* and without the ring argument, with and without authentication, no      *)
(* other trigger                                                           *)
(***************************************************************************)
HttpInputs ==
    [steps |-> {1001}, reqs |-> {"none", "ring", "doorbell"}, auths |-> BOOLEAN,
     begins |-> BOOLEAN, pubs |-> {TRUE}, fss |-> {FsAnswers_ok},
     wifis |-> {TRUE}, connects |-> {TRUE}, drops |-> {FALSE},
     msgs |-> {NoMessage}, levels |-> {HIGH}, finishes |-> BOOLEAN,
     subs |-> { {} }]

HttpNext == Step(HttpInputs)

HttpSpec == Init /\ [][HttpNext]_vars

(***************************************************************************)
(* Specification of the bus: followed-topics files with a topic listed     *)
(* twice, a blank line and more than eight lines; connections that fail,   *)
(* drop and come back; subscribes that fail; messages that match no, one   *)
(* or two entries                                                          *)
(***************************************************************************)
BusFollowFiles ==
    { << <<"a", ",", "1">>, <<"b">>, <<"a">> >>,
      << <<"a", ",", "1">>, <<"b">>, <<>>, <<"c">> >>,
      << <<"1">>, <<"2">>, <<"3">>, <<"4">>, <<"5">>, <<"6">>, <<"7">>,
         <<"8">>, <<"9">> >> }

BusInit == InitWith({ <<0, 1000>>, <<65535, 64536>> }, {1}, {1000}, { <<>> },
                    BusFollowFiles)

BusInputs ==
    [steps |-> {1001}, reqs |-> {"none"}, auths |-> {TRUE},
     begins |-> {TRUE}, pubs |-> {TRUE}, fss |-> {FsAnswers_ok},
     wifis |-> {TRUE}, connects |-> {TRUE}, drops |-> {FALSE},
     msgs |-> {NoMessage, << <<"a">>, <<"1">> >>, << <<"a">>, <<"2">> >>,
               << <<"b">>, <<"2">> >>, << <<"c">>, <<"1">> >>,
               << <<"9">>, <<"1">> >>},
     levels |-> {HIGH}, finishes |-> {TRUE}, subs |-> { {} }]

BusNext == Step(BusInputs)

BusSpec == BusInit /\ [][BusNext]_vars

(***************************************************************************)
(* Specification of the bus connection: connections that fail, drop and    *)
(* come back, subscribes that fail, while the switch is pressed            *)
(***************************************************************************)
ConnInputs ==
    [steps |-> {1001}, reqs |-> {"none"}, auths |-> {TRUE},
     begins |-> {TRUE}, pubs |-> {TRUE}, fss |-> {FsAnswers_ok},
     wifis |-> BOOLEAN, connects |-> BOOLEAN, drops |-> BOOLEAN,
     msgs |-> {NoMessage}, levels |-> {LOW, HIGH}, finishes |-> {TRUE},
     subs |-> { {}, {1}, {2} }]

ConnNext == Step(ConnInputs)

ConnSpec == BusInit /\ [][ConnNext]_vars

(***************************************************************************)
(* Specification of the reload: the file server of http_server_task()      *)
(* replaces doorbell_mqtt_follow.txt by an uploaded file, the bus          *)
(* connection drops and comes back, and doorbell_task() loads the registry *)
(* again                                                                   *)
(***************************************************************************)
\* uploaded files: one topic, and one topic followed by a blank line
UploadFiles ==
    { << <<"c">> >>,
      << <<"c">>, <<>>, <<"b">> >> }

\* http_server_task() that serves the upload of doorbell_mqtt_follow.txt:
\* FileServerHandler::upload() removes the file, writes and closes the new one
HttpUpload(file) ==
    /\ pc = "http"
    /\ followFile' = file
    /\ log' = <<>>
    /\ cyc' = IF doorbell_is_playing(State) THEN cyc ELSE NoCycle
    /\ pc' = "mqtt"
    /\ UNCHANGED <<millis, uptime, running, replay_cntr, replay_timestamp_ms,
                   switch_press_timestamp_ms, prevSwitchStatus, audioPlayCount,
                   audioPlayDelay_ms, audioFileName, audioGain, configFile,
                   historyFile, doorbell_history, mqttConnected,
                   mqtt_connect_start_time, mqtt_flags, subscribedToMqttTopics,
                   followedMqttTopics, press, lastPress, elapses, triggers,
                   records, connectFailedAt>>

ReloadInputs ==
    [steps |-> {1001}, reqs |-> {"none"}, auths |-> {TRUE},
     begins |-> {TRUE}, pubs |-> {TRUE}, fss |-> {FsAnswers_ok},
     wifis |-> {TRUE}, connects |-> {TRUE}, drops |-> BOOLEAN,
     msgs |-> {NoMessage, << <<"b">>, <<"2">> >>},
     levels |-> {HIGH}, finishes |-> {TRUE}, subs |-> { {} }]

ReloadNext ==
    \/ \E file \in UploadFiles : HttpUpload(file)
    \/ Step(ReloadInputs)

ReloadSpec == BusInit /\ [][ReloadNext]_vars

(***************************************************************************)
(* Specification of the reconnection: a broker that refuses and accepts    *)
(* connections, WiFi that comes and goes, iterations of loop() in the same *)
(* millisecond, one second and five seconds apart                          *)
(***************************************************************************)
RetryInputs ==
    [steps |-> {1001, 5000}, reqs |-> {"none"}, auths |-> {TRUE},
     begins |-> {TRUE}, pubs |-> {TRUE}, fss |-> {FsAnswers_ok},
     wifis |-> BOOLEAN, connects |-> BOOLEAN, drops |-> BOOLEAN,
     msgs |-> {NoMessage}, levels |-> {HIGH}, finishes |-> {TRUE},
     subs |-> { {} }]

RetryNext == Step(RetryInputs)

RetrySpec == BusInit /\ [][RetryNext]_vars

(***************************************************************************)
(* Specification of the notifications: publishes that succeed or fail for  *)
(* the switch and the web trigger                                          *)
(***************************************************************************)
PubInputs ==
    [steps |-> {1001}, reqs |-> {"none", "ring"}, auths |-> {TRUE},
     begins |-> {TRUE}, pubs |-> BOOLEAN, fss |-> {FsAnswers_ok},
     wifis |-> {TRUE}, connects |-> {TRUE}, drops |-> {FALSE},
     msgs |-> {NoMessage}, levels |-> {LOW, HIGH}, finishes |-> {TRUE},
     subs |-> { {} }]

PubNext == Step(PubInputs)

PubSpec == Init /\ [][PubNext]_vars

(***************************************************************************)
(* Specification of the configuration: setup() calls doorbell_init() on a  *)
(* doorbell.txt with up to four lines, each absent, empty, well-formed or  *)
(* malformed, and loop() then runs with what was loaded.  The files of the *)
(* model hold no negative delay, whose conversion to uint32_t is not       *)
(* modelled.                                                               *)
(***************************************************************************)
\* the statics of doorbell.cpp as a record
Config ==
    [audioFileName |-> audioFileName, audioPlayCount |-> audioPlayCount,
     audioPlayDelay_ms |-> audioPlayDelay_ms, audioGain |-> audioGain]

\* doorbell_init(): c holds the statics before the call, the result after it
doorbell_init(c, file) ==
    LET name == readStringFromFile(file, 0)
        str1 == readStringFromFile(file, 1)
        str2 == readStringFromFile(file, 2)
        str3 == readStringFromFile(file, 3)
    IN  [audioFileName |-> IF str1 = <<>> THEN DOORBELL_AUDIO_FILE_NAME
                           ELSE name,
         audioPlayCount |-> IF str1 = <<>> THEN c.audioPlayCount
                            ELSE toInt(str1) % 256,
         audioPlayDelay_ms |-> IF str2 # <<>> THEN toInt(str2)
                               ELSE c.audioPlayDelay_ms,
         audioGain |-> IF str3 # <<>> THEN toFloat(str3) ELSE c.audioGain]

ConfigNames == { <<>>, <<"a">> }
ConfigCounts == { <<>>, <<"3">>, <<"x">>, <<"2", "x">> }
ConfigDelays == { <<>>, <<"5", "0", "0">>, <<"x">> }
ConfigGains == { <<>>, <<"0", ".", "5">>, <<"x">> }

\* doorbell.txt with four lines, and with the last lines missing
ConfigFiles ==
    LET full == { <<n, c, d, g>> : n \in ConfigNames, c \in ConfigCounts,
                                   d \in ConfigDelays, g \in ConfigGains }
    IN  { SubSeq(f, 1, k) : f \in full, k \in 0..4 }

\* before setup(): the statics hold their initializers
ConfigInit ==
    /\ pc = "setup"
    /\ audioFileName = DOORBELL_AUDIO_FILE_NAME
    /\ audioPlayCount = DOORBELL_AUDIO_PLAY_COUNT
    /\ audioPlayDelay_ms = DOORBELL_AUDIO_PLAY_DELAY_MS
    /\ audioGain = DOORBELL_AUDIO_GAIN
    /\ configFile \in ConfigFiles
    /\ Boot({ <<0, 1000>> }, { <<>> }, FollowFiles)

\* setup(), of which doorbell_init() is the part that configures the doorbell
Setup ==
    /\ pc = "setup"
    /\ LET c == doorbell_init(Config, configFile)
       IN  /\ audioFileName' = c.audioFileName
           /\ audioPlayCount' = c.audioPlayCount
           /\ audioPlayDelay_ms' = c.audioPlayDelay_ms
           /\ audioGain' = c.audioGain
    /\ pc' = "http"
    /\ UNCHANGED <<millis, uptime, running, replay_cntr, replay_timestamp_ms,
                   switch_press_timestamp_ms, prevSwitchStatus, configFile,
                   historyFile, doorbell_history, mqttConnected,
                   mqtt_connect_start_time, mqtt_flags, subscribedToMqttTopics,
                   followedMqttTopics, followFile, log, cyc, press, lastPress,
                   elapses, triggers, records, connectFailedAt>>

ConfigInputs ==
    [steps |-> {1001}, reqs |-> {"none", "ring"}, auths |-> {TRUE},
     begins |-> {TRUE}, pubs |-> {TRUE}, fss |-> {FsAnswers_ok},
     wifis |-> {TRUE}, connects |-> {TRUE}, drops |-> {FALSE},
     msgs |-> {NoMessage}, levels |-> {HIGH}, finishes |-> {TRUE},
     subs |-> { {} }]

ConfigNext ==
    \/ Setup
    \/ Step(ConfigInputs)

ConfigSpec == ConfigInit /\ [][ConfigNext]_vars

(***************************************************************************)
(* Specification of the play count 0: doorbell.txt holds "0" in its second *)
(* line, and loop() runs with the triggers and answers of LoopInputs       *)
(***************************************************************************)
ZeroCounts == {0}

ZeroInit == InitWith(StartMillis, ZeroCounts, PlayDelays, { <<>> }, FollowFiles)

ZeroNext == Step(LoopInputs)

ZeroSpec == ZeroInit /\ [][ZeroNext]_vars

(***************************************************************************)
(* Specification of playback under fair scheduling.  loop() never returns  *)
(* from its for(;;), so each of the three tasks runs again and again; the  *)
(* decoder reaches the end of the audio file; millis() keeps counting.     *)
(* The fairness of http_server_task() is stated for the call that finds no *)
(* request, which is enabled whenever http_server_task() is next.          *)
(* Only the passing of time that a pending replay waits for is modelled:   *)
(* the clock advances by LiveStep while a deadline is set and has not      *)
(* passed.  uptime, which no property of this specification reads, stands  *)
(* still, so that a scheduler that waits forever is a cycle of states.     *)
(***************************************************************************)
LiveStep == 268435456

LiveInit ==
    InitWith({ <<0, 1000>>, <<65535, 64535>> }, {2}, {1000}, { <<>> },
             FollowFiles)

\* millis() as seen by the next iteration of loop() while a replay is awaited
LiveElapse ==
    /\ pc = "http"
    /\ replay_timestamp_ms # U32Zero
    /\ ~U32Less(replay_timestamp_ms, millis)
    /\ millis' = U32Add(millis, LiveStep)
    /\ UNCHANGED <<pc, uptime, running, replay_cntr, replay_timestamp_ms,
                   switch_press_timestamp_ms, prevSwitchStatus, audioPlayCount,
                   audioPlayDelay_ms, historyFile, doorbell_history,
                   mqttConnected, mqtt_connect_start_time, mqtt_flags,
                   subscribedToMqttTopics, followedMqttTopics, followFile,
                   log, cyc, press, lastPress, elapses, triggers, records,
                   audioFileName, audioGain, configFile,
                   connectFailedAt>>

\* http_server_task() with no request waiting
LiveHttpIdle == HttpServerTask("none", TRUE, TRUE, TRUE, FsAnswers_ok)

\* http_server_task() that serves a ring request
LiveHttpRing == HttpServerTask("ring", TRUE, TRUE, TRUE, FsAnswers_ok)

LiveMqtt == MqttTask(TRUE, TRUE, FALSE, NoMessage, TRUE, TRUE, FsAnswers_ok)

\* doorbell_task() in which a running decoder has reached the end of the file
LiveTaskFinish == DoorbellTask(HIGH, TRUE, TRUE, TRUE, FsAnswers_ok, {})

\* doorbell_task() in which a running decoder has more to decode
LiveTaskDecode == DoorbellTask(HIGH, FALSE, TRUE, TRUE, FsAnswers_ok, {})

LiveNext ==
    \/ LiveElapse
    \/ LiveHttpIdle
    \/ LiveHttpRing
    \/ LiveMqtt
    \/ LiveTaskFinish
    \/ LiveTaskDecode

LiveFairness ==
    /\ SF_vars(LiveElapse)
    /\ WF_vars(LiveHttpIdle)
    /\ WF_vars(LiveMqtt)
    /\ SF_vars(LiveTaskFinish)

LiveSpec == LiveInit /\ [][LiveNext]_vars /\ LiveFairness

(***************************************************************************)
(* Specification of the subscription under fair scheduling: loop() calls   *)
(* the three tasks again and again, the connection drops and comes back,   *)
(* subscribes fail, and again and again a doorbell_task() finds the broker *)
(* accepting every subscribe.  The bookkeeping reads no clock, so the      *)
(* iterations are taken in one millisecond.                                *)
(***************************************************************************)
SubHttp == HttpServerTask("none", TRUE, TRUE, TRUE, FsAnswers_ok)

SubMqtt ==
    \E connectOk \in BOOLEAN, drop \in BOOLEAN :
        MqttTask(TRUE, connectOk, drop, NoMessage, TRUE, TRUE, FsAnswers_ok)

\* doorbell_task() in which every mqttClient.subscribe() succeeds
SubTaskOk == DoorbellTask(HIGH, TRUE, TRUE, TRUE, FsAnswers_ok, {})

\* doorbell_task() in which the subscribe of the first or second line fails
SubTaskFail ==
    \E subFails \in { {1}, {2} } :
        DoorbellTask(HIGH, TRUE, TRUE, TRUE, FsAnswers_ok, subFails)

SubNext ==
    \/ SubHttp
    \/ SubMqtt
    \/ SubTaskOk
    \/ SubTaskFail

SubFairness ==
    /\ WF_vars(SubHttp)
    /\ WF_vars(SubMqtt)
    /\ SF_vars(SubTaskOk)

SubSpec == BusInit /\ [][SubNext]_vars /\ SubFairness

(***************************************************************************)
(* Specification of the history log: record() applied to a history file    *)
(* that earlier records have written                                       *)
(***************************************************************************)
\* the file after n records, the most recent first
HistoryFileOfLength(n) ==
    [i \in 1..n |-> <<ToString(i - n - 1), EventLabel(i % 5)>>]

HistoryFiles == { HistoryFileOfLength(n) : n \in 0..DOORBELL_HISTORY_LENGTH }

HistoryInit == InitFrom({U32Zero}, {1}, {1000}, HistoryFiles)

\* doorbell_update_history(eventType)
RecordEvent(eventType, fs) ==
    /\ records < MaxRecords
    /\ pc = "http"
    /\ Commit(doorbell_update_history([State EXCEPT !.log = <<>>],
                                      Env(TRUE, TRUE, fs.openOk, fs.wrLimit),
                                      eventType))
    /\ records' = records + 1
    /\ UNCHANGED <<pc, millis, uptime, switch_press_timestamp_ms,
                   prevSwitchStatus, audioPlayCount, audioPlayDelay_ms,
                   mqttConnected, mqtt_connect_start_time, mqtt_flags,
                   subscribedToMqttTopics, followedMqttTopics, followFile,
                   press, lastPress, elapses, triggers,
                   audioFileName, audioGain, configFile,
                   connectFailedAt>>

\* the numbers of lines of the rewrite that have reached the flash when the
\* power is lost
CrashPoints == {0, 1, 2}

\* power is lost inside doorbell_update_history(eventType), between
\* LittleFS.open(.., "w"), which truncates the file, and file.close();
\* persisted: the lines of the rewrite that are in the file at the restart.
\* The device then runs setup() again.
PowerLossInRecord(eventType, persisted) ==
    /\ records < MaxRecords
    /\ pc = "http"
    /\ LET lines == readStringsFromFile(historyFile, 0, DOORBELL_HISTORY_LENGTH)
           entry == <<ToString(uptime \div 1000), EventLabel(eventType)>>
           rewrite == <<entry>> \o lines
           found == Take(rewrite, Min2(persisted, Len(rewrite)))
       IN  /\ historyFile' = found
           /\ log' = << Entry("powerloss",
                              [type |-> eventType, before |-> historyFile,
                               after |-> found, entry |-> entry],
                              FALSE, Sched(State), <<FALSE, 0, U32Zero>>) >>
    /\ millis' = U32Zero
    /\ running' = FALSE
    /\ replay_cntr' = 0
    /\ replay_timestamp_ms' = U32Zero
    /\ switch_press_timestamp_ms' = U32Zero
    /\ prevSwitchStatus' = HIGH
    /\ doorbell_history' = [i \in 1..DOORBELL_HISTORY_LENGTH |-> <<>>]
    /\ mqttConnected' = FALSE
    /\ mqtt_connect_start_time' = U32Zero
    /\ mqtt_flags' = 0
    /\ subscribedToMqttTopics' = FALSE
    /\ followedMqttTopics' = [i \in 1..DOORBELL_MAX_MQTT_FOLLOW_TOPICS |-> NoTopic]
    /\ cyc' = NoCycle
    /\ press' = [open |-> FALSE, at |-> 0, confirmed |-> 0, long |-> 0,
                 set |-> FALSE, clears |-> 0]
    /\ lastPress' = [released |-> FALSE, d |-> 0, confirmed |-> 0, long |-> 0,
                     now |-> FALSE, set |-> FALSE, clears |-> 0,
                     busy |-> FALSE, connected |-> FALSE]
    /\ records' = records + 1
    /\ UNCHANGED <<pc, uptime, audioPlayCount, audioPlayDelay_ms, followFile,
                   elapses, triggers,
                   audioFileName, audioGain, configFile,
                   connectFailedAt>>

HistoryInputs ==
    [steps |-> {1000}, reqs |-> {"none", "index"}, auths |-> {TRUE},
     begins |-> {TRUE}, pubs |-> {TRUE}, fss |-> {FsAnswers_ok},
     wifis |-> {FALSE}, connects |-> {TRUE}, drops |-> {FALSE},
     msgs |-> {NoMessage}, levels |-> {HIGH}, finishes |-> {TRUE},
     subs |-> { {} }]

HistoryNext ==
    \/ \E eventType \in 0..4, fs \in FsAnswers : RecordEvent(eventType, fs)
    \/ \E eventType \in 0..4, persisted \in CrashPoints :
          PowerLossInRecord(eventType, persisted)
    \/ Step(HistoryInputs)

HistorySpec == HistoryInit /\ [][HistoryNext]_vars

(***************************************************************************)
(* Properties                                                              *)
(***************************************************************************)
\* is_busy() as the specification defines it, on a scheduler state
\* <<isRunning, replay_cntr, replay_timestamp_ms>>
BusyIn(sched) == sched[1] \/ sched[3] # U32Zero \/ sched[2] # 0

IsBusy == BusyIn(<<running, replay_cntr, replay_timestamp_ms>>)

\* the attempts to start a decode session made in this loop iteration
IsStartAttempt(i) == log[i].op \in {"play", "replay"}

\* C1: at most one decode session is active at any time.  In every loop
\* iteration, whatever triggers it receives: no decode session is started
\* while the decoder is rendering, a trigger (doorbell_play) starts a session
\* only when nothing is rendering, no replay deadline is pending and no
\* replays remain, and once one start of the iteration has succeeded no later
\* trigger of that iteration starts playback.
C1_OneSessionAtATime ==
    /\ \A i \in DOMAIN log :
           (IsStartAttempt(i) /\ log[i].ok) => ~log[i].pre[1]
    /\ \A i \in DOMAIN log :
           (log[i].op = "play" /\ log[i].ok) => ~BusyIn(log[i].pre)
    /\ \A i \in DOMAIN log : \A j \in DOMAIN log :
           (i < j /\ IsStartAttempt(i) /\ IsStartAttempt(j) /\ log[i].ok)
               => ~log[j].ok

\* an iteration in which an HTTP ring started playback, a matching bus message
\* then called doorbell_play() and the switch release was confirmed
C1_Witness ==
    /\ pc = "http"
    /\ \E i \in DOMAIN log : \E j \in DOMAIN log : \E k \in DOMAIN log :
           /\ i < j /\ j < k
           /\ log[i].op = "play" /\ log[i].ok
           /\ log[j].op = "play" /\ ~log[j].ok
           /\ log[k].op = "PressConfirmed"
           /\ \E r \in (i + 1)..(j - 1) :
                  log[r].op = "record" /\ log[r].arg.type = EVENT_DOORBELL_WEB
           /\ \E r \in (j + 1)..(k - 1) :
                  log[r].op = "record" /\ log[r].arg.type = EVENT_DOORBELL_MQTT

\* C2: doorbell_play() called while doorbell_is_playing() is true starts no
\* decode session and leaves replay_cntr and replay_timestamp_ms unchanged.
C2_PlayWhileBusyIsNoOp ==
    \A i \in DOMAIN log :
        (log[i].op = "play" /\ BusyIn(log[i].pre))
            => ~log[i].ok /\ log[i].post = log[i].pre

\* doorbell_play() was called while a replay deadline was pending
C2_Witness ==
    \E i \in DOMAIN log :
        /\ log[i].op = "play"
        /\ ~log[i].pre[1]
        /\ log[i].pre[3] # U32Zero
        /\ log[i].pre[2] > 0

\* C3: for every playCount n >= 1, one play() from idle whose session starts
\* all succeed results in exactly n decode-session starts by the time the
\* scheduler is idle again.
C3_ExactlyPlayCountStarts ==
    (cyc.active /\ ~cyc.failed /\ cyc.n >= 1 /\ ~IsBusy)
        => cyc.starts = cyc.n

\* C4: a scheduled replay is never restarted before interReplayDelayMs has
\* elapsed since the tick that observed the previous session finished.
C4_ReplayNotBeforeDelay ==
    \A i \in DOMAIN log :
        log[i].op = "replay" => log[i].arg >= audioPlayDelay_ms

\* C5: from a successful play() with playCount n until the n-th decode session
\* has completed, is_busy() is true in every state.
C5_BusyUntilLastSessionDone ==
    (cyc.active /\ ~cyc.failed /\ cyc.n >= 1 /\ cyc.finished < cyc.n)
        => IsBusy

\* C6: a press held for d with 100 <= d < 5000 produces exactly one
\* PressConfirmed, in the tick that samples the release, and no LongPress.
C6_ShortPressConfirmedOnce ==
    (/\ lastPress.released
     /\ lastPress.d >= DOORBELL_SOFTWARE_DEBOUNCE_TIME_MS
     /\ lastPress.d < DOORBELL_LONG_PRESS_TIME_MS)
        => (lastPress.confirmed = 1 /\ lastPress.now /\ lastPress.long = 0)

\* C7: a press held for d >= 5000 produces exactly one LongPress and no
\* PressConfirmed, whatever the spacing of the ticks that sample it.
C7_LongPressOnce ==
    (lastPress.released /\ lastPress.d >= DOORBELL_LONG_PRESS_TIME_MS)
        => (lastPress.long = 1 /\ lastPress.confirmed = 0)

\* C8: a press held for d < 100 produces no PressConfirmed and no LongPress,
\* hence no publish, no play() and no history entry, and the press is closed
\* at its release.
C8_BounceAbsorbed ==
    /\ (lastPress.released /\ lastPress.d < DOORBELL_SOFTWARE_DEBOUNCE_TIME_MS)
           => (/\ lastPress.confirmed = 0
               /\ lastPress.long = 0
               /\ switch_press_timestamp_ms = U32Zero)
    /\ (press.open /\ uptime - press.at < DOORBELL_SOFTWARE_DEBOUNCE_TIME_MS)
           => (press.confirmed = 0 /\ press.long = 0)

\* C9: the persisted history file never contains more than
\* DOORBELL_HISTORY_LENGTH lines.
C9_HistoryFileBounded == Len(historyFile) <= DOORBELL_HISTORY_LENGTH

\* C10: after a record() without storage failure the persisted history is the
\* new entry followed by the previously retained entries in unchanged order,
\* the entries beyond the capacity discarded from the old end.
C10_RecordPrepends ==
    \A i \in DOMAIN log :
        (log[i].op = "record" /\ log[i].ok)
            => log[i].arg.after =
                   Take(<<log[i].arg.entry>> \o log[i].arg.before,
                        DOORBELL_HISTORY_LENGTH)

C12_FailedRecordStillShown ==
    (/\ Len(log) > 0
     /\ log[Len(log)].op = "record"
     /\ ~log[Len(log)].ok)
        => LET shown == doorbell_generate_index_htm(State)
           IN  /\ doorbell_history[1] = log[Len(log)].arg.entry
               /\ shown.doorbell_history[1] = log[Len(log)].arg.entry

\* C13: a start of a decode session that fails, in doorbell_play() called
\* when idle or at a replay deadline in doorbell_task(), leaves the scheduler
\* idle: nothing running, replay_cntr 0 and no replay deadline.
C13_FailedStartLeavesIdle ==
    \A i \in DOMAIN log :
        (/\ IsStartAttempt(i)
         /\ ~log[i].ok
         /\ log[i].op = "play" => ~BusyIn(log[i].pre))
            => log[i].post = <<FALSE, 0, U32Zero>>

\* C14 as stated: in every reachable state exactly one of these holds:
\* replay_cntr > 0; a replay deadline is set; both are zero.
C14_ExactlyOneOfThree ==
    LET a == replay_cntr > 0
        b == replay_timestamp_ms # U32Zero
        c == replay_cntr = 0 /\ replay_timestamp_ms = U32Zero
    IN  \/ a /\ ~b /\ ~c
        \/ ~a /\ b /\ ~c
        \/ ~a /\ ~b /\ c

\* C14 amended: a replay deadline is set only while replays remain and no
\* decode session is running, and replay_cntr never exceeds audioPlayCount;
\* the scheduler is idle exactly when nothing is running and both are zero.
C14_DeadlineOnlyWithReplays ==
    /\ replay_timestamp_ms # U32Zero => (replay_cntr > 0 /\ ~running)
    /\ replay_cntr <= audioPlayCount
    /\ ~IsBusy <=> (~running /\ replay_cntr = 0 /\ replay_timestamp_ms = U32Zero)

\* a replay deadline is pending after the first of two sessions has finished
C14_Witness ==
    /\ replay_timestamp_ms # U32Zero
    /\ replay_cntr = 1
    /\ audioPlayCount = 2
    /\ cyc.finished = 1

\* C15: at the end of every doorbell_task() switch_press_timestamp_ms is set
\* only if the level last sampled is LOW, and within one press/release cycle
\* in which it was set it goes from set to cleared exactly once, at the
\* release or when the long press fires.
C15_TimestampOnlyWhilePressed ==
    /\ switch_press_timestamp_ms # U32Zero => prevSwitchStatus = LOW
    /\ (lastPress.released /\ lastPress.set) => lastPress.clears = 1
    /\ (press.open /\ press.set)
           => /\ press.clears <= 1
              /\ press.clears = 0 <=> switch_press_timestamp_ms # U32Zero

\* a press whose timestamp the long press cleared has been released
C15_Witness ==
    /\ lastPress.released
    /\ lastPress.set
    /\ lastPress.long = 1
    /\ lastPress.clears = 1
    /\ prevSwitchStatus = HIGH

\* the entries of the log of this loop iteration that satisfy Test
CountLog(Test(_)) == Cardinality({ i \in DOMAIN log : Test(log[i]) })

IsPressPublish(en) == en.op = "publish" /\ en.arg = "press"

IsPlayCall(en) == en.op = "play"

IsPlayStart(en) == en.op = "play" /\ en.ok

IsSwitchRecord(en) == en.op = "record" /\ en.arg.type = EVENT_DOORBELL

\* C16: a press held 200 ms while playback is idle and the bus is connected
\* produces, in the doorbell_task() that samples the release, exactly one
\* publish to the press topic, exactly one doorbell_play() call, which starts
\* playback, and exactly one history entry of the switch.
C16_ShortPressEndToEnd ==
    (/\ pc = "http"
     /\ lastPress.released
     /\ lastPress.d = 200
     /\ ~lastPress.busy
     /\ lastPress.connected)
        => /\ CountLog(IsPressPublish) = 1
           /\ CountLog(IsPlayCall) = 1
           /\ CountLog(IsPlayStart) = 1
           /\ CountLog(IsSwitchRecord) = 1

\* C17: a confirmed press while doorbell_is_playing() is true publishes to the
\* press topic (when the bus is connected) and calls neither doorbell_play()
\* nor doorbell_update_history(): the scheduler state is the same after the
\* publish and no history entry is written in that doorbell_task().
C17_PressWhileBusyOnlyPublishes ==
    \A i \in DOMAIN log :
        (log[i].op = "PressConfirmed" /\ BusyIn(log[i].pre))
            => /\ mqttConnected
                   => /\ i + 1 \in DOMAIN log
                      /\ IsPressPublish(log[i + 1])
                      /\ log[i + 1].post = log[i].pre
               /\ \A j \in DOMAIN log :
                      j > i => /\ log[j].op \notin {"play", "record"}
                               /\ log[j].op = "publish" => j = i + 1

\* a release was confirmed while a trigger of the same loop iteration had
\* started playback, with the bus connected
C17_Witness ==
    \E i \in DOMAIN log :
        /\ log[i].op = "PressConfirmed"
        /\ log[i].pre[1]
        /\ mqttConnected
        /\ i + 1 \in DOMAIN log
        /\ log[i + 1].op = "publish"

IsLongPressPublish(en) == en.op = "publish" /\ en.arg = "longPress"

IsLampRecord(en) == en.op = "record" /\ en.arg.type = EVENT_COURTYARD_LAMP

\* C18: a long press, whether doorbell_is_playing() or not, publishes to the
\* longPress topic exactly once when the bus is connected (never otherwise),
\* writes exactly one courtyard lamp history entry and does not call
\* doorbell_play(): the scheduler state after the entry is the one before
\* the long press.
C18_LongPressPublishesAndRecords ==
    \A i \in DOMAIN log :
        log[i].op = "LongPress"
            => LET r == IF mqttConnected THEN i + 2 ELSE i + 1
               IN  /\ CountLog(IsLongPressPublish) = IF mqttConnected THEN 1 ELSE 0
                   /\ mqttConnected => IsLongPressPublish(log[i + 1])
                   /\ CountLog(IsLampRecord) = 1
                   /\ r \in DOMAIN log
                   /\ IsLampRecord(log[r])
                   /\ log[r].post = log[i].pre
                   /\ \A j \in DOMAIN log : j > i => log[j].op # "play"

\* a long press fired while a replay was pending or a session running, with
\* the bus connected
C18_Witness ==
    \E i \in DOMAIN log :
        /\ log[i].op = "LongPress"
        /\ BusyIn(log[i].pre)
        /\ mqttConnected
        /\ i + 2 \in DOMAIN log
        /\ IsLampRecord(log[i + 2])

IsWebRecord(en) == en.op = "record" /\ en.arg.type = EVENT_DOORBELL_WEB

IsRingRequest(en) == en.op = "request" /\ en.arg.bell = "RING"

\* C19 as stated: every request to the doorbell page with bell = "RING" calls
\* doorbell_play() exactly once and writes exactly one web history entry; a
\* request without it does neither (loop iterations with no other trigger).
C19_EveryRingPlaysAndRecords ==
    \A i \in DOMAIN log :
        log[i].op = "request"
            => IF IsRingRequest(log[i])
               THEN CountLog(IsPlayCall) = 1 /\ CountLog(IsWebRecord) = 1
               ELSE CountLog(IsPlayCall) = 0 /\ CountLog(IsWebRecord) = 0

\* C19 amended: a request with bell = "RING" that passes
\* http_is_authenticated() calls doorbell_play() exactly once, then writes
\* exactly one web history entry; a request that is not authenticated or has
\* no bell = "RING" does neither (loop iterations with no other trigger).
C19_AuthenticatedRingPlaysAndRecords ==
    \A i \in DOMAIN log :
        log[i].op = "request"
            => IF IsRingRequest(log[i]) /\ log[i].arg.authed
               THEN /\ CountLog(IsPlayCall) = 1
                    /\ CountLog(IsWebRecord) = 1
                    /\ IsPlayCall(log[i + 1])
                    /\ \E r \in {i + 2, i + 3} :
                           r \in DOMAIN log /\ IsWebRecord(log[r])
               ELSE CountLog(IsPlayCall) = 0 /\ CountLog(IsWebRecord) = 0

\* an authenticated ring request has started playback and has been recorded
C19_Witness ==
    \E i \in DOMAIN log :
        /\ IsRingRequest(log[i])
        /\ log[i].arg.authed
        /\ i + 2 \in DOMAIN log
        /\ IsPlayStart(log[i + 1])
        /\ CountLog(IsWebRecord) = 1

\* C20: a ring request that arrives while doorbell_is_playing() is true
\* results in no doorbell_play() call and no web history entry.
C20_RingWhileBusyDoesNothing ==
    \A i \in DOMAIN log :
        (IsRingRequest(log[i]) /\ log[i].arg.authed /\ BusyIn(log[i].pre))
            => CountLog(IsPlayCall) = 0 /\ CountLog(IsWebRecord) = 0

IsBusRecord(en) == en.op = "record" /\ en.arg.type = EVENT_DOORBELL_MQTT

\* C21: a delivered bus message is one trigger: when some registry entry
\* matches it, doorbell_mqtt_callback calls doorbell_play() exactly once and
\* writes exactly one bus history entry, however many entries match; when
\* none matches it does neither (no other trigger in the loop iteration).
C21_OneTriggerPerMessage ==
    \A i \in DOMAIN log :
        log[i].op = "message"
            => IF log[i].ok
               THEN CountLog(IsPlayCall) = 1 /\ CountLog(IsBusRecord) = 1
               ELSE CountLog(IsPlayCall) = 0 /\ CountLog(IsBusRecord) = 0

\* the text of a followed-topics line before and after its first comma
HasComma(line) == \E i \in 1..Len(line) : line[i] = ","

FirstComma(line) ==
    CHOOSE i \in 1..Len(line) :
        line[i] = "," /\ \A j \in 1..(i - 1) : line[j] # ","

BeforeComma(line) ==
    IF HasComma(line) THEN SubSeq(line, 1, FirstComma(line) - 1) ELSE line

AfterComma(line) == SubSeq(line, FirstComma(line) + 1, Len(line))

\* the first DOORBELL_MAX_MQTT_FOLLOW_TOPICS lines of the followed-topics file
FollowLines ==
    readStringsFromFile(followFile, 0, DOORBELL_MAX_MQTT_FOLLOW_TOPICS)

\* the number of lines before the first line with a blank topic
LoadedCount ==
    CHOOSE m \in 0..Len(FollowLines) :
        /\ \A k \in 1..m : BeforeComma(FollowLines[k]) # <<>>
        /\ m = Len(FollowLines) \/ BeforeComma(FollowLines[m + 1]) = <<>>

EmptyRegistry == [i \in 1..DOORBELL_MAX_MQTT_FOLLOW_TOPICS |-> NoTopic]

TestTopics == { <<"a">>, <<"b">>, <<"c">>, <<"1">>, <<"9">>, <<"z">> }

TestPayloads == { <<>>, <<"1">>, <<"2">> }

\* C22: once the registry is loaded, matches(t, p) is true exactly when a
\* loaded line is "t" without comma (any payload) or is "t,p": an entry from
\* "t1,v1" matches (t1, v1) and not (t1, v2), an entry from "t2" matches t2
\* with every payload, and a topic of no loaded entry never matches.
C22_MatchesAsLoaded ==
    followedMqttTopics # EmptyRegistry
        => \A t \in TestTopics : \A p \in TestPayloads :
               matches(followedMqttTopics, t, p)
                   <=> \E k \in 1..LoadedCount :
                           /\ BeforeComma(FollowLines[k]) = t
                           /\ \/ ~HasComma(FollowLines[k])
                              \/ /\ HasComma(FollowLines[k])
                                 /\ AfterComma(FollowLines[k]) = p

\* with "a,1" the only loaded line for topic a, a message (a, 2) was
\* delivered and matched no entry
C22_Witness ==
    /\ followedMqttTopics # EmptyRegistry
    /\ followedMqttTopics[3] = NoTopic
    /\ \E i \in DOMAIN log :
           /\ log[i].op = "message"
           /\ log[i].arg = [topic |-> <<"a">>, payload |-> <<"2">>]
           /\ ~log[i].ok

\* C23: doorbell_mqtt_init reads at most DOORBELL_MAX_MQTT_FOLLOW_TOPICS
\* lines; for the lines before the first blank topic, in file order, it
\* stores topic (text before the first comma) and value (text after it,
\* empty without comma) and subscribes the topic once; it subscribes no line
\* at or after the first blank topic; it returns true exactly when no
\* subscribe failed.
C23_LoadSubscribesInOrder ==
    \A i \in DOMAIN log :
        log[i].op = "mqtt_init"
            => /\ Len(log[i].arg.subs) = LoadedCount
               /\ LoadedCount <= DOORBELL_MAX_MQTT_FOLLOW_TOPICS
               /\ \A k \in 1..LoadedCount :
                      /\ log[i].arg.subs[k] = BeforeComma(FollowLines[k])
                      /\ followedMqttTopics[k].topic = BeforeComma(FollowLines[k])
                      /\ followedMqttTopics[k].value =
                             IF HasComma(FollowLines[k])
                             THEN AfterComma(FollowLines[k]) ELSE <<>>
               /\ log[i].ok <=> log[i].arg.fails = {}

\* a load from the file with a blank third line: two topics subscribed, the
\* second subscribe failed, the load reports failure
C23_Witness ==
    \E i \in DOMAIN log :
        /\ log[i].op = "mqtt_init"
        /\ Len(followFile) = 4
        /\ log[i].arg.subs = << <<"a">>, <<"b">> >>
        /\ log[i].arg.fails = {2}
        /\ ~log[i].ok

\* C24: doorbell_mqtt_init is idempotent: after any load the registry is the
\* one a single load from the empty registry gives, a further load against
\* the unchanged file leaves it as it is, and so matches() answers the same.
C24_LoadIdempotent ==
    \A i \in DOMAIN log :
        log[i].op = "mqtt_init"
            => LET once == doorbell_mqtt_init(EmptyRegistry, followFile, {}).followed
                   again == doorbell_mqtt_init(followedMqttTopics, followFile,
                                               {}).followed
               IN  /\ followedMqttTopics = once
                   /\ again = followedMqttTopics
                   /\ \A t \in TestTopics : \A p \in TestPayloads :
                          matches(again, t, p) <=> matches(once, t, p)

\* a load into a registry that an earlier load had filled
C24_Witness ==
    \E i \in DOMAIN log :
        /\ log[i].op = "mqtt_init"
        /\ log[i].arg.before # EmptyRegistry
        /\ log[i].arg.before = followedMqttTopics

IsMqttInit(en) == en.op = "mqtt_init"

\* C25: in a doorbell_task() that is passed the connect flag, or that finds
\* the bus connected with subscribedToMqttTopics clear, doorbell_mqtt_init()
\* is called exactly once (and in no other), before the switch is handled;
\* in a doorbell_task() that is passed the disconnect flag or finds the bus
\* not connected, subscribedToMqttTopics is clear afterwards.
C25_ReloadOnConnection ==
    [][ pc = "task"
            => /\ Cardinality({ i \in DOMAIN log' : IsMqttInit(log'[i]) })
                      = IF \/ HasFlag(mqtt_flags, MQTT_FLAG_CONNECTED)
                           \/ mqttConnected /\ ~subscribedToMqttTopics
                        THEN 1 ELSE 0
               /\ \A i \in DOMAIN log' : \A j \in DOMAIN log' :
                      (/\ IsMqttInit(log'[i])
                       /\ log'[j].op \in {"PressConfirmed", "LongPress"})
                          => i < j
               /\ (HasFlag(mqtt_flags, MQTT_FLAG_DISCONNECTED) \/ ~mqttConnected)
                      => ~subscribedToMqttTopics' ]_vars

\* after a reconnection the registry was loaded again, in the doorbell_task()
\* that then handled a long press
C25_Witness ==
    \E i \in DOMAIN log : \E j \in DOMAIN log :
        /\ IsMqttInit(log[i])
        /\ log[i].arg.before # EmptyRegistry
        /\ log[j].op = "LongPress"
        /\ i < j
        /\ subscribedToMqttTopics

IsPlayAudioPublish(en) == en.op = "publish" /\ en.arg = "playAudio"

\* C26 as stated: every doorbell_play() call is followed by exactly one
\* publish to the playAudio topic, whether playback started, was refused or
\* failed to start.
C26_EveryPlayPublishes ==
    /\ \A i \in DOMAIN log :
           IsPlayCall(log[i])
               => i + 1 \in DOMAIN log /\ IsPlayAudioPublish(log[i + 1])
    /\ CountLog(IsPlayAudioPublish) = CountLog(IsPlayCall)

\* C26 amended: every doorbell_play() call made while the bus client is
\* connected is followed by exactly one publish to the playAudio topic,
\* whether playback started, was refused or failed to start; a call made
\* while the client is not connected publishes nothing.
C26_PlayPublishesWhenConnected ==
    [][ (pc = "http" /\ pc' = "mqtt")
            => /\ \A i \in DOMAIN log' :
                      IsPlayCall(log'[i])
                          => (mqttConnected
                                  <=> /\ i + 1 \in DOMAIN log'
                                      /\ IsPlayAudioPublish(log'[i + 1]))
               /\ Cardinality({ i \in DOMAIN log' : IsPlayAudioPublish(log'[i]) })
                      = IF mqttConnected
                        THEN Cardinality({ i \in DOMAIN log' : IsPlayCall(log'[i]) })
                        ELSE 0 ]_vars

\* a doorbell_play() call that was refused because the scheduler was busy
\* has published to the playAudio topic
C26_Witness ==
    \E i \in DOMAIN log :
        /\ IsPlayCall(log[i])
        /\ ~log[i].ok
        /\ BusyIn(log[i].pre)
        /\ i + 1 \in DOMAIN log
        /\ IsPlayAudioPublish(log[i + 1])

\* the handler result s with the outcome of every publish blanked
SamePublishOutcome(s) ==
    [s EXCEPT !.log = [i \in DOMAIN s.log |->
                          IF s.log[i].op = "publish"
                          THEN [s.log[i] EXCEPT !.ok = TRUE] ELSE s.log[i]]]

\* C27: a publish that returns failure is only reported.  A failed publish
\* leaves the scheduler state as it was, and from every reachable state a
\* confirmed press, a long press and a doorbell_play() call give, with a
\* failing publish, the same doorbell_play() call, the same history entry and
\* the same scheduler state as with a successful one.
C27_PublishFailureOnlyReported ==
    /\ \A i \in DOMAIN log :
           (log[i].op = "publish" /\ ~log[i].ok) => log[i].post = log[i].pre
    /\ \A b \in BOOLEAN :
           LET eT == Env(b, TRUE, TRUE, NoLimit)
               eF == Env(b, FALSE, TRUE, NoLimit)
           IN  /\ SamePublishOutcome(doorbell_on_press(State, eF))
                      = SamePublishOutcome(doorbell_on_press(State, eT))
               /\ SamePublishOutcome(doorbell_on_long_press(State, eF))
                      = SamePublishOutcome(doorbell_on_long_press(State, eT))
               /\ SamePublishOutcome(doorbell_play(State, eF))
                      = SamePublishOutcome(doorbell_play(State, eT))

\* the publish to the press topic failed; the same doorbell_task() started
\* playback and recorded the press
C27_Witness ==
    \E i \in DOMAIN log :
        /\ IsPressPublish(log[i])
        /\ ~log[i].ok
        /\ i + 3 \in DOMAIN log
        /\ IsPlayStart(log[i + 1])
        /\ IsPlayAudioPublish(log[i + 2])
        /\ IsSwitchRecord(log[i + 3])

\* C28: once playback has started it cannot be cancelled or shortened: a
\* request or a bus message handled while busy leaves the decoder, the
\* remaining replays and the deadline as they are; and when the tasks keep
\* running, the clock advances and every session finishes, a busy doorbell
\* becomes idle again
C28_PlaybackRunsToCompletion ==
    /\ [][(pc \in {"http", "mqtt"} /\ IsBusy)
            => UNCHANGED <<running, replay_cntr, replay_timestamp_ms>>]_vars
    /\ [](IsBusy => <>(~IsBusy))

\* line n of doorbell.txt as doorbell_init() reads it
ConfigLine(n) == readStringFromFile(configFile, n)

\* a text made of decimal digits only
IsNumeric(s) == Len(s) > 0 /\ \A i \in 1..Len(s) : IsDigit(s[i])

\* C29: after initialization each of the four configuration values is its
\* built-in default exactly when its own line of doorbell.txt is absent or
\* empty, whatever the other lines are, and is the value of its line
\* otherwise
C29_EachValueFallsBackAlone ==
    pc # "setup" =>
        /\ audioFileName = (IF ConfigLine(0) = <<>>
                            THEN DOORBELL_AUDIO_FILE_NAME
                            ELSE ConfigLine(0))
        /\ audioPlayCount = (IF ConfigLine(1) = <<>>
                             THEN DOORBELL_AUDIO_PLAY_COUNT
                             ELSE toInt(ConfigLine(1)) % 256)
        /\ audioPlayDelay_ms = (IF ConfigLine(2) = <<>>
                                THEN DOORBELL_AUDIO_PLAY_DELAY_MS
                                ELSE toInt(ConfigLine(2)))
        /\ audioGain = (IF ConfigLine(3) = <<>>
                        THEN DOORBELL_AUDIO_GAIN
                        ELSE toFloat(ConfigLine(3)))

\* C30: after initialization a play count line that is present but not a
\* number leaves the play count at 1, and a delay line that is present but
\* not a number leaves the delay at 1000 ms
C30_MalformedNumberGivesDefault ==
    pc # "setup" =>
        /\ (ConfigLine(1) # <<>> /\ ~IsNumeric(ConfigLine(1)))
               => audioPlayCount = DOORBELL_AUDIO_PLAY_COUNT
        /\ (ConfigLine(2) # <<>> /\ ~IsNumeric(ConfigLine(2)))
               => audioPlayDelay_ms = DOORBELL_AUDIO_PLAY_DELAY_MS

\* a clock value far from the wrap, at which a press of the same length is
\* taken to start
NoWrapStart == <<0, 1000>>

\* what a tick decides for a press held for d ms that starts at NoWrapStart
ConfirmedFarFromWrap(d) == PressConfirmed(NoWrapStart, U32Add(NoWrapStart, d))

LongFarFromWrap(d) == LongPress(NoWrapStart, U32Add(NoWrapStart, d))

\* C31: the debounce and long press decisions do not depend on where the
\* 32-bit clock stands.  In every doorbell_task(): for a press that is still
\* held and has reported no long press before, a long press is reported
\* exactly when it is for a press of the same length far from the wrap, and
\* no PressConfirmed is; for a press that is released and has reported no
\* long press, PressConfirmed is reported exactly when it is for a press of
\* the same length far from the wrap
C31_PressDecisionsWrapTolerant ==
    [][pc = "task" =>
        LET longNow == \E i \in DOMAIN log' : log'[i].op = "LongPress"
            confNow == \E i \in DOMAIN log' : log'[i].op = "PressConfirmed"
        IN  /\ (press'.open /\ press'.long = (IF longNow THEN 1 ELSE 0))
                   => /\ longNow = LongFarFromWrap(uptime - press'.at)
                      /\ ~confNow
            /\ (lastPress'.released /\ lastPress'.long = 0)
                   => confNow = ConfirmedFarFromWrap(lastPress'.d)]_vars

\* a replay is scheduled and millis() + audioPlayDelay_ms has wrapped: the
\* stored deadline is smaller than the delay
DeadlineWrapped ==
    /\ cyc.schedAt >= 0
    /\ replay_timestamp_ms[1] = 0
    /\ replay_timestamp_ms[2] < audioPlayDelay_ms

\* this doorbell_task() restarts the scheduled replay
RestartsReplay == \E i \in DOMAIN log' : log'[i].op = "replay"

\* C32: the replay deadline does not depend on where the 32-bit clock
\* stands.  When millis() + audioPlayDelay_ms has wrapped, a doorbell_task()
\* restarts the scheduled replay only if audioPlayDelay_ms has elapsed since
\* it was scheduled, and does restart it once more than that has elapsed
C32_ReplayDeadlineWrapTolerant ==
    [][(pc = "task" /\ ~running /\ DeadlineWrapped) =>
        /\ RestartsReplay => uptime - cyc.schedAt >= audioPlayDelay_ms
        /\ uptime - cyc.schedAt > audioPlayDelay_ms => RestartsReplay]_vars

IsConnect(en) == en.op = "connect"

\* C33: mqtt_task() attempts to connect only while WiFi is connected and the
\* client is not, and not before MQTT_CONNECT_RETRY_SEC seconds have passed
\* since the last failed attempt; a failed attempt returns the flag
\* DISCONNECTED alone and a successful one the flag CONNECTED alone
C33_ReconnectBackoff ==
    \A i \in DOMAIN log :
        IsConnect(log[i]) =>
            /\ log[i].arg.wifi
            /\ ~log[i].arg.connected
            /\ \/ log[i].arg.since = -1
               \/ log[i].arg.since >= MQTT_CONNECT_RETRY_SEC * 1000
            /\ mqtt_flags = (IF log[i].ok THEN MQTT_FLAG_CONNECTED
                                          ELSE MQTT_FLAG_DISCONNECTED)

\* C34: in every state a pending replay deadline implies that the decoder is
\* not running and that at least one replay remains, and replay_cntr is at
\* most the configured play count
C34_DeadlineImpliesIdleDecoder ==
    /\ replay_timestamp_ms # U32Zero => (~running /\ replay_cntr >= 1)
    /\ replay_cntr <= audioPlayCount

\* a replay is awaited after the first of two sessions
C34_Witness ==
    /\ replay_timestamp_ms # U32Zero
    /\ ~running
    /\ replay_cntr = 1
    /\ audioPlayCount = 2
    /\ cyc.finished = 1

\* C35: replay_cntr is decremented once per decode session that was started
\* and has finished, whatever the clock value at which the deadline is
\* computed and also when a scheduled restart fails: in a playback cycle the
\* number of decrements made so far is at most the number of sessions that
\* have finished
C35_OneDecrementPerSession ==
    cyc.active => cyc.n - replay_cntr <= cyc.finished

\* C36: after a load the registry reflects only the file as it is now, also
\* when the file has fewer topics than at an earlier load or a blank line
\* earlier: in the doorbell_task() that has loaded, matches(t, p) is true
\* only for the topics listed before the first blank topic of the file
C36_RegistryReflectsLastLoad ==
    (\E i \in DOMAIN log : IsMqttInit(log[i]))
        => \A t \in TestTopics : \A p \in TestPayloads :
               matches(followedMqttTopics, t, p)
                   => \E k \in 1..LoadedCount : BeforeComma(FollowLines[k]) = t

\* C37: after the bus bookkeeping of every doorbell_task() the flag
\* subscribedToMqttTopics is set only if the client is connected and the
\* last doorbell_mqtt_init() returned true: the load of this tick when there
\* is one, otherwise the load after which the flag was already set
C37_SubscribedOnlyWhenConnected ==
    [][(pc = "task" /\ subscribedToMqttTopics') =>
        /\ mqttConnected
        /\ \A i \in DOMAIN log' : IsMqttInit(log'[i]) => log'[i].ok
        /\ (\E i \in DOMAIN log' : IsMqttInit(log'[i]))
               \/ subscribedToMqttTopics]_vars

\* the connection came back and the load of this tick subscribed every topic
C37_Witness ==
    /\ pc = "http"
    /\ subscribedToMqttTopics
    /\ mqttConnected
    /\ mqtt_flags = MQTT_FLAG_CONNECTED
    /\ connectFailedAt >= 0
    /\ \E i \in DOMAIN log : IsMqttInit(log[i]) /\ log[i].ok

\* a load of this tick in which a subscribe failed
LoadFailedNow ==
    \E i \in DOMAIN log : IsMqttInit(log[i]) /\ log[i].arg.fails # {}

LoadedNow == \E i \in DOMAIN log : IsMqttInit(log[i])

\* C38: a load in which a subscribe fails leaves subscribedToMqttTopics
\* false, and every doorbell_task() that finds the bus connected and the flag
\* false loads again; hence when the bus stays connected and the subscribes
\* succeed again and again, the flag is eventually set for good and the
\* loads stop
C38_ResubscribeUntilSuccess ==
    /\ [][pc = "task" =>
            /\ LoadFailedNow' => ~subscribedToMqttTopics'
            /\ (mqttConnected /\ ~subscribedToMqttTopics) => LoadedNow']_vars
    /\ <>[]mqttConnected => <>[](subscribedToMqttTopics /\ ~LoadedNow)

\* the bus is connected and the load of this tick failed on a subscribe
C38_Witness ==
    /\ pc = "http"
    /\ mqttConnected
    /\ mqtt_flags = 0
    /\ LoadFailedNow
    /\ ~subscribedToMqttTopics

(***************************************************************************)
(* Switch presses and history entries                                      *)
(***************************************************************************)
\* a press confirmed while doorbell_is_playing() was false
IsIdleConfirm(en) == en.op = "PressConfirmed" /\ ~BusyIn(en.pre)

\* the doorbell_play() call and the doorbell_update_history() call that
\* follow the press confirmed at log[i]
PlayAfterConfirm(i) == IF mqttConnected THEN i + 2 ELSE i + 1

RecordAfterConfirm(i) == IF mqttConnected THEN i + 4 ELSE i + 2

\* C39: in every loop iteration the history entries of the switch are as
\* many as the presses confirmed while doorbell_is_playing() was false, each
\* such press is followed by one doorbell_play() call and then by the
\* history entry whether or not the decoder began, a press confirmed while
\* busy is followed by no history entry, and the playbacks started by the
\* switch are never more than the entries.
C39_SwitchRecordPerIdleConfirm ==
    /\ CountLog(IsSwitchRecord) = CountLog(IsIdleConfirm)
    /\ \A i \in DOMAIN log :
           IsIdleConfirm(log[i])
               => /\ RecordAfterConfirm(i) \in DOMAIN log
                  /\ IsPlayCall(log[PlayAfterConfirm(i)])
                  /\ IsSwitchRecord(log[RecordAfterConfirm(i)])
                  /\ log[RecordAfterConfirm(i)].ok
                         => Head(historyFile) = log[RecordAfterConfirm(i)].arg.entry
    /\ \A j \in DOMAIN log :
           IsSwitchRecord(log[j])
               => \E i \in DOMAIN log :
                      IsIdleConfirm(log[i]) /\ j = RecordAfterConfirm(i)
    /\ \A i \in DOMAIN log :
           (log[i].op = "PressConfirmed" /\ BusyIn(log[i].pre))
               => \A j \in DOMAIN log : j > i => ~IsSwitchRecord(log[j])

\* a press was confirmed while idle, the decoder did not begin, and the
\* history entry of the switch was written all the same: one entry, no
\* playback started
C39_Witness ==
    \E i \in DOMAIN log :
        /\ IsIdleConfirm(log[i])
        /\ ~log[PlayAfterConfirm(i)].ok
        /\ IsSwitchRecord(log[RecordAfterConfirm(i)])
        /\ log[RecordAfterConfirm(i)].ok
        /\ CountLog(IsSwitchRecord) = 1
        /\ CountLog(IsPlayStart) = 0
        /\ ~running

(***************************************************************************)
(* Play count 0                                                            *)
(***************************************************************************)
\* C40: with a play count of 0 every doorbell_play() call made while idle
\* whose audio_gen->begin() succeeds leaves one decode session running,
\* replay_cntr 0 and no replay deadline (a call made while busy changes
\* nothing); the playback cycle holds that one start and no restart or
\* decrement ever follows; and doorbell_is_playing() is true exactly while
\* the decoder is running.
C40_PlayCountZeroPlaysOnce ==
    /\ audioPlayCount = 0
    /\ replay_cntr = 0
    /\ replay_timestamp_ms = U32Zero
    /\ IsBusy <=> running
    /\ doorbell_is_playing(State) <=> running
    /\ cyc.active => /\ cyc.n = 0
                     /\ cyc.starts = 1
                     /\ cyc.finished <= 1
                     /\ running <=> cyc.finished = 0
    /\ running => cyc.active
    /\ \A i \in DOMAIN log :
           /\ log[i].op \notin {"replay", "done"}
           /\ IsPlayCall(log[i])
                  => IF BusyIn(log[i].pre)
                     THEN ~log[i].ok /\ log[i].post = log[i].pre
                     ELSE log[i].post = <<log[i].ok, 0, U32Zero>>

\* the one session started by a doorbell_play() from idle has finished: the
\* scheduler is idle again in the loop iteration of the finish, with no
\* replay scheduled
C40_Witness ==
    /\ audioPlayCount = 0
    /\ cyc.active
    /\ cyc.starts = 1
    /\ cyc.finished = 1
    /\ ~running
    /\ ~IsBusy

====
